---- MODULE Spec2Model ----
(***************************************************************************)
(* sparse::Matrix<T, Default, Index> of include/sparse/matrix.hpp: an      *)
(* unbounded 2D sparse matrix stored in a std::map keyed by (x, y), read   *)
(* and written through the proxies RowProxy and CellProxy, and traversed   *)
(* with Matrix::iterator.                                                  *)
(*                                                                         *)
(* One Matrix object is modelled.  It is reachable through a non-const     *)
(* reference and through a const reference to the same object.  The        *)
(* caller keeps two CellProxy variables and one iterator variable; storing *)
(* a new proxy in a variable replaces the old one.  The RowProxy of an     *)
(* expression m[x][y] lives from the first index to the second.            *)
(***************************************************************************)
EXTENDS Integers, Sequences, FiniteSets

\* ---------------------------------------------------------------- domains

\* template parameter Default; the chain of the file comment frees with 0
Default == 0

\* the largest x coordinate used (x ranges over 100..MaxX)
MaxX == 101

\* the longest chain of assignments through returned handles
MaxChain == 3

\* T: Default and the two other values of the file comment's chain
Value == {Default, 217, 314}

XIndex == 100..MaxX

YIndex == 100..101

KeySet == [x : XIndex, y : YIndex]

\* the caller's CellProxy variables
HandleId == {1, 2}

\* ------------------------------------------------------------ Key and Map

\* a faulty Key::operator< that forgets the y comparison
KeyLessNoY(a, b) == a.x < b.x

\* a faulty Key::operator< that orders by y first
KeyLessYFirst(a, b) == (a.y < b.y) \/ ((a.y = b.y) /\ (a.x < b.x))

\* Key::operator<
KeyLess(a, b) == (a.x < b.x) \/ ((a.x = b.x) /\ (a.y < b.y))

\* Key{x, y}
MkKey(x, y) == [x |-> x, y |-> y]

\* a default constructed Map
EmptyMap == <<>>

\* std::map::end(), as a position in the node sequence
MapEnd(d) == Len(d) + 1

\* std::map::lower_bound: the first node whose key is not less than k
LowerBound(d, k) ==
    IF \E i \in 1..Len(d) : ~KeyLess(d[i].key, k)
    THEN CHOOSE i \in 1..Len(d) :
            /\ ~KeyLess(d[i].key, k)
            /\ \A j \in 1..(i - 1) : KeyLess(d[j].key, k)
    ELSE MapEnd(d)

\* std::map::find: the node equivalent to k under the comparison, or end()
MapFind(d, k) ==
    LET i == LowerBound(d, k)
    IN  IF i = MapEnd(d) \/ KeyLess(k, d[i].key) THEN MapEnd(d) ELSE i

\* std::map::erase(iterator)
MapErase(d, i) == SubSeq(d, 1, i - 1) \o SubSeq(d, i + 1, Len(d))

\* a faulty store that uses insert(), which keeps an existing node's value
MapAssignKeepOld(d, k, v) ==
    LET i == LowerBound(d, k)
    IN  IF i # MapEnd(d) /\ ~KeyLess(k, d[i].key)
        THEN d
        ELSE SubSeq(d, 1, i - 1) \o <<[key |-> k, val |-> v]>>
                 \o SubSeq(d, i, Len(d))

\* data_[k] = v: std::map::operator[] followed by the assignment
MapAssign(d, k, v) ==
    LET i == LowerBound(d, k)
    IN  IF i # MapEnd(d) /\ ~KeyLess(k, d[i].key)
        THEN [d EXCEPT ![i].val = v]
        ELSE SubSeq(d, 1, i - 1) \o <<[key |-> k, val |-> v]>>
                 \o SubSeq(d, i, Len(d))

\* ------------------------------------------------------- Matrix primitives

\* a faulty set that stores Default like any other value
SetStoresDefault(d, x, y, v) == MapAssign(d, MkKey(x, y), v)

\* a faulty set whose Default branch forgets the erase
SetNeverErases(d, x, y, v) ==
    IF v = Default THEN d ELSE MapAssign(d, MkKey(x, y), v)

\* Matrix::set: the map after the call
Set(d, x, y, v) ==
    IF v = Default
    THEN LET it == MapFind(d, MkKey(x, y))
         IN  IF it # MapEnd(d) THEN MapErase(d, it) ELSE d
    ELSE MapAssign(d, MkKey(x, y), v)

\* a faulty find that looks the key up with operator[], which inserts
FindInserting(d, x, y) ==
    LET d2 == IF MapFind(d, MkKey(x, y)) = MapEnd(d)
              THEN MapAssign(d, MkKey(x, y), Default)
              ELSE d
    IN  [data |-> d2, ptr |-> MapFind(d2, MkKey(x, y))]

\* Matrix::find: the map after the call and the pointer returned; ptr is the
\* position of the node whose value is pointed to, 0 for nullptr
Find(d, x, y) ==
    LET it == MapFind(d, MkKey(x, y))
    IN  [data |-> d, ptr |-> IF it = MapEnd(d) THEN 0 ELSE it]

\* a faulty conversion that answers a fixed value other than Default for an
\* empty cell
ConvertTNoDefault(d, x, y) ==
    LET r == Find(d, x, y)
    IN  [data |-> r.data, val |-> IF r.ptr # 0 THEN r.data[r.ptr].val ELSE 217]

\* CellProxy::operator T: the map after the call and the value returned
ConvertT(d, x, y) ==
    LET r == Find(d, x, y)
    IN  [data |-> r.data, val |-> IF r.ptr # 0 THEN r.data[r.ptr].val ELSE Default]

\* Matrix::size
Size(d) == Len(d)

\* ----------------------------------------------------------------- proxies

\* a RowProxy: x_ and, of its type, whether the object is const; fromConst
\* remembers that it was obtained by indexing the const Matrix
RowProxy(x, c, f) == [live |-> TRUE, x |-> x, isConst |-> c, fromConst |-> f]

\* a CellProxy: x_, y_ and the same two marks
CellProxy(x, y, c, f) ==
    [live |-> TRUE, x |-> x, y |-> y, isConst |-> c, fromConst |-> f]

NoRow == [live |-> FALSE, x |-> 0, isConst |-> FALSE, fromConst |-> FALSE]

NoCell == [live |-> FALSE, x |-> 0, y |-> 0, isConst |-> FALSE, fromConst |-> FALSE]

\* what the last call returned to the caller, when it returned something
NoRet == [kind |-> "none", h |-> 0, val |-> 0]

RetValue(h, v) == [kind |-> "value", h |-> h, val |-> v]

RetSize(n) == [kind |-> "size", h |-> 0, val |-> n]

RetCell(h) == [kind |-> "cell", h |-> h, val |-> 0]

\* a faulty operator= that returns another CellProxy than *this
AssignReturnOther(h) == 3 - h

\* CellProxy::operator= returns *this: the handle it was called on
AssignReturn(h) == h

\* ---------------------------------------------------------------- iterator

\* Matrix::iterator wraps a Map::const_iterator, which points to a node (named
\* here by the node's key), is end(), is singular (default constructed) or
\* dangles (its node was erased)
NodeIt(k) == [kind |-> "node", x |-> k.x, y |-> k.y]

EndIt == [kind |-> "end", x |-> 0, y |-> 0]

Singular == [kind |-> "singular", x |-> 0, y |-> 0]

Dangling == [kind |-> "dangling", x |-> 0, y |-> 0]

\* Matrix::begin
Begin(d) == IF Len(d) = 0 THEN EndIt ELSE NodeIt(d[1].key)

\* Matrix::end
End(d) == EndIt

\* the position of the node an iterator points to
NodePos(d, it) == CHOOSE i \in 1..Len(d) : d[i].key = MkKey(it.x, it.y)

\* iterator::operator*
Deref(d, it) ==
    LET n == d[NodePos(d, it)] IN <<n.key.x, n.key.y, n.val>>

\* iterator::operator++
Incr(d, it) ==
    LET i == NodePos(d, it)
    IN  IF i = Len(d) THEN EndIt ELSE NodeIt(d[i + 1].key)

\* iterator::operator!=
IterNotEqual(a, b) == a # b

\* std::map invalidates only the iterators to an erased node
Invalidate(it, d) ==
    IF it.kind = "node" /\ ~(\E i \in 1..Len(d) : d[i].key = MkKey(it.x, it.y))
    THEN Dangling
    ELSE it

\* every value an iterator can take over the map d
AnyIter(d) == {EndIt, Dangling} \cup {NodeIt(d[i].key) : i \in 1..Len(d)}

\* ------------------------------------------------------------------- state

VARIABLES
    data_,    \* Matrix::data_: the nodes of the std::map, in key order
    row,      \* the RowProxy of the indexing expression being evaluated
    cells,    \* the caller's CellProxy variables
    ret,      \* what the last call returned
    it_,      \* the caller's Matrix::iterator
    trace,    \* the triples of the running range-for, while nothing was written
    clean,    \* a range-for was started and the map has not changed since
    shadow,   \* history: the value last assigned to each coordinate
    fresh,    \* history: no assignment was made since construction
    chain     \* history: the running chain of assignments in one expression

vars == <<data_, row, cells, ret, it_, trace, clean, shadow, fresh, chain>>

NoChain == [h |-> 0, x |-> 0, y |-> 0, base |-> <<>>, vals |-> <<>>]

Init ==
    /\ data_ = EmptyMap
    /\ row = NoRow
    /\ cells = [h \in HandleId |-> NoCell]
    /\ ret = NoRet
    /\ it_ = Singular
    /\ trace = <<>>
    /\ clean = FALSE
    /\ shadow = [k \in KeySet |-> Default]
    /\ fresh = TRUE
    /\ chain = NoChain

\* ----------------------------------------------------------------- actions

\* Matrix::operator[](Index x), the result kept in the RowProxy variable
MatrixIndex(x) ==
    /\ row' = RowProxy(x, FALSE, FALSE)
    /\ ret' = NoRet
    /\ chain' = NoChain
    /\ UNCHANGED <<data_, cells, it_, trace, clean, shadow, fresh>>

\* Matrix::operator[](Index x) const: a const RowProxy over const_cast<Matrix&>
MatrixIndexConst(x) ==
    /\ row' = RowProxy(x, TRUE, TRUE)
    /\ ret' = NoRet
    /\ chain' = NoChain
    /\ UNCHANGED <<data_, cells, it_, trace, clean, shadow, fresh>>

\* the implicit copy constructor of RowProxy: auto r = cm[x] is not const
RowCopy ==
    /\ row.live
    /\ row' = RowProxy(row.x, FALSE, row.fromConst)
    /\ ret' = NoRet
    /\ chain' = NoChain
    /\ UNCHANGED <<data_, cells, it_, trace, clean, shadow, fresh>>

\* RowProxy::operator[](Index y), const or not as the RowProxy is, the result
\* kept in CellProxy variable h; the RowProxy ends with the expression
RowIndex(h, y) ==
    /\ row.live
    /\ cells' = [cells EXCEPT ![h] = CellProxy(row.x, y, row.isConst, row.fromConst)]
    /\ row' = NoRow
    /\ ret' = NoRet
    /\ chain' = NoChain
    /\ UNCHANGED <<data_, it_, trace, clean, shadow, fresh>>

\* the implicit copy constructor of CellProxy, into the non-const variable g
CellCopy(h, g) ==
    /\ h # g
    /\ cells[h].live
    /\ cells' = [cells EXCEPT ![g] = CellProxy(cells[h].x, cells[h].y, FALSE, cells[h].fromConst)]
    /\ ret' = NoRet
    /\ chain' = NoChain
    /\ UNCHANGED <<data_, row, it_, trace, clean, shadow, fresh>>

\* CellProxy::operator T through variable h
Read(h) ==
    /\ cells[h].live
    /\ LET r == ConvertT(data_, cells[h].x, cells[h].y)
       IN  /\ data_' = r.data
           /\ ret' = RetValue(h, r.val)
           /\ it_' = Invalidate(it_, r.data)
           /\ clean' = (clean /\ r.data = data_)
           /\ trace' = IF clean /\ r.data = data_ THEN trace ELSE <<>>
    /\ chain' = NoChain
    /\ UNCHANGED <<row, cells, shadow, fresh>>

\* Matrix::size
SizeOp ==
    /\ ret' = RetSize(Size(data_))
    /\ chain' = NoChain
    /\ UNCHANGED <<data_, row, cells, it_, trace, clean, shadow, fresh>>

\* CellProxy::operator= (both overloads have the same body) through variable
\* h; it is a non-const member, so the call compiles for a non-const object only
AssignOp(h, v) ==
    /\ cells[h].live
    /\ ~cells[h].isConst
    /\ LET d2 == Set(data_, cells[h].x, cells[h].y, v)
       IN  /\ data_' = d2
           /\ it_' = Invalidate(it_, d2)
           /\ clean' = (clean /\ d2 = data_)
           /\ trace' = IF clean /\ d2 = data_ THEN trace ELSE <<>>
    /\ shadow' = [shadow EXCEPT ![MkKey(cells[h].x, cells[h].y)] = v]
    /\ fresh' = FALSE
    /\ ret' = RetCell(AssignReturn(h))
    /\ UNCHANGED <<row, cells>>

\* an assignment statement: c = v
Assign(h, v) ==
    /\ AssignOp(h, v)
    /\ chain' = NoChain

\* the first assignment of an expression (c = v1) = v2 ...
ChainFirst(h, v) ==
    /\ AssignOp(h, v)
    /\ chain' = [h |-> h, x |-> cells[h].x, y |-> cells[h].y,
                 base |-> data_, vals |-> <<v>>]

\* the next assignment of the expression, through the reference returned
ChainNext(v) ==
    /\ ret.kind = "cell"
    /\ ret.h \in HandleId
    /\ Len(chain.vals) >= 1
    /\ Len(chain.vals) < MaxChain
    /\ AssignOp(ret.h, v)
    /\ chain' = [chain EXCEPT !.vals = Append(@, v)]

\* for (auto t : matrix): it = begin()
RangeBegin ==
    /\ it_' = Begin(data_)
    /\ trace' = <<>>
    /\ clean' = TRUE
    /\ ret' = NoRet
    /\ chain' = NoChain
    /\ UNCHANGED <<data_, row, cells, shadow, fresh>>

\* for (auto t : matrix): it != end(), t = *it, ++it.  On a dangling iterator
\* the step is undefined: it may leave the iterator anywhere
RangeStep ==
    /\ it_.kind \in {"node", "dangling"}
    /\ IterNotEqual(it_, End(data_))
    /\ IF it_.kind = "node"
       THEN /\ it_' = Incr(data_, it_)
            /\ trace' = IF clean THEN Append(trace, Deref(data_, it_)) ELSE <<>>
       ELSE /\ it_' \in AnyIter(data_)
            /\ trace' = <<>>
    /\ ret' = NoRet
    /\ chain' = NoChain
    /\ UNCHANGED <<data_, row, cells, clean, shadow, fresh>>

\* ---------------------------------------------------------- specifications

\* no indexing expression m[x][y] is half evaluated: the program is single
\* threaded, and the second index follows the first
Idle == ~row.live

\* the non-const Matrix used through one CellProxy variable and a range-for
Next ==
    \/ Idle /\ \E x \in XIndex : MatrixIndex(x)
    \/ \E y \in YIndex : RowIndex(1, y)
    \/ Idle /\ \E v \in Value : Assign(1, v)
    \/ Idle /\ Read(1)
    \/ Idle /\ SizeOp
    \/ Idle /\ RangeBegin
    \/ Idle /\ RangeStep

Spec == Init /\ [][Next]_vars

\* two CellProxy variables over the non-const Matrix
NextHandles ==
    \/ Idle /\ \E x \in XIndex : MatrixIndex(x)
    \/ \E h \in HandleId, y \in YIndex : RowIndex(h, y)
    \/ Idle /\ \E h \in HandleId, g \in HandleId : CellCopy(h, g)
    \/ Idle /\ \E h \in HandleId, v \in Value : Assign(h, v)
    \/ Idle /\ \E h \in HandleId : Read(h)

SpecHandles == Init /\ [][NextHandles]_vars

\* expressions that chain assignments through the returned handle
NextChain ==
    \/ Idle /\ \E x \in XIndex : MatrixIndex(x)
    \/ \E y \in YIndex : RowIndex(1, y)
    \/ Idle /\ \E v \in Value : ChainFirst(1, v)
    \/ Idle /\ \E v \in Value : ChainNext(v)

SpecChain == Init /\ [][NextChain]_vars

\* the Matrix used through a const reference only
NextConst ==
    \/ Idle /\ \E x \in XIndex : MatrixIndexConst(x)
    \/ RowCopy
    \/ \E h \in HandleId, y \in YIndex : RowIndex(h, y)
    \/ Idle /\ \E h \in HandleId, g \in HandleId : CellCopy(h, g)
    \/ Idle /\ \E h \in HandleId, v \in Value : Assign(h, v)
    \/ Idle /\ \E h \in HandleId : Read(h)

SpecConst == Init /\ [][NextConst]_vars

\* -------------------------------------------------------------- properties

\* the map read directly, node by node, without the comparison of the keys
Occupied(d, k) == \E i \in 1..Len(d) : d[i].key = k

StoredAt(d, k) ==
    IF Occupied(d, k)
    THEN d[CHOOSE i \in 1..Len(d) : d[i].key = k].val
    ELSE Default

\* the coordinate CellProxy variable h is bound to
CellKey(h) == MkKey(cells[h].x, cells[h].y)

\* (x, y) order of two yielded triples
TripleBefore(s, t) == (s[1] < t[1]) \/ ((s[1] = t[1]) /\ (s[2] < t[2]))

\* C1: whatever values, Default included, are assigned through cell handles
\* at whatever coordinates, no node of data_ holds a value equal to Default.
NoDefaultEntries == \A i \in 1..Len(data_) : data_[i].val # Default

\* C1 happens: Default was just assigned through a handle while other cells
\* are occupied
NoDefaultEntriesWitness ==
    /\ ret.kind = "cell"
    /\ shadow[CellKey(ret.h)] = Default
    /\ Size(data_) >= 1

\* C2: after container[x][y] = v with v # Default the cell reads v, and
\* size() is one more than before if (x, y) was unoccupied and the same if it
\* was occupied.
WriteReadRoundTrip ==
    [][\A h \in HandleId, v \in Value \ {Default} :
          Assign(h, v) =>
              /\ ConvertT(data_', cells[h].x, cells[h].y).val = v
              /\ Size(data_') =
                     Size(data_) + (IF Occupied(data_, CellKey(h)) THEN 0 ELSE 1)]_vars

\* C2 happens: a value other than Default was just assigned and at least two
\* cells are occupied
WriteReadRoundTripWitness ==
    /\ ret.kind = "cell"
    /\ shadow[CellKey(ret.h)] # Default
    /\ Size(data_) >= 2

\* C3: after container[x][y] = Default the cell reads Default; size() is one
\* less than before if (x, y) was occupied, and size() and the map are
\* unchanged if it was not.
DefaultElidesStorage ==
    [][\A h \in HandleId :
          Assign(h, Default) =>
              /\ ConvertT(data_', cells[h].x, cells[h].y).val = Default
              /\ IF Occupied(data_, CellKey(h))
                 THEN Size(data_') = Size(data_) - 1
                 ELSE Size(data_') = Size(data_) /\ data_' = data_]_vars

\* C3 happens: Default was just assigned after earlier assignments, and one
\* cell is still occupied
DefaultElidesStorageWitness ==
    /\ ret.kind = "cell"
    /\ ~fresh
    /\ shadow[CellKey(ret.h)] = Default
    /\ \E k \in KeySet : shadow[k] # Default
    /\ Size(data_) = 1

\* C4: an assignment returns the handle it was called on, bound to the same
\* coordinate, so a chain v1, ..., vn through the returned handles leaves the
\* matrix as one assignment of vn to the chain's first state would; and
\* ((m[100][100] = 314) = 0) = 217 on an empty matrix ends with the cell
\* reading 217 and size() = 1.
ChainedAssignment ==
    Len(chain.vals) >= 1 =>
        LET vn == chain.vals[Len(chain.vals)]
            k == MkKey(chain.x, chain.y)
        IN  /\ ret = RetCell(chain.h)
            /\ cells[ret.h].live
            /\ CellKey(ret.h) = k
            /\ data_ = Set(chain.base, chain.x, chain.y, vn)
            /\ \A c \in KeySet :
                   StoredAt(data_, c) = IF c = k THEN vn ELSE StoredAt(chain.base, c)
            /\ (chain.base = <<>> /\ k = MkKey(100, 100)
                    /\ chain.vals = <<314, 0, 217>>) =>
                   /\ ConvertT(data_, 100, 100).val = 217
                   /\ Size(data_) = 1

\* C4 happens: the chain 314, 0, 217 was applied to m[100][100] of an empty
\* matrix
ChainedAssignmentWitness ==
    /\ chain.base = <<>>
    /\ chain.x = 100
    /\ chain.y = 100
    /\ chain.vals = <<314, 0, 217>>

\* C5: a traversal from begin() to end() with no write in between yields one
\* triple (x, y, value) for every occupied cell and no other, strictly
\* ascending by x and then by y, and as many triples as size().
TraversalOrdered ==
    (clean /\ it_ = EndIt) =>
        /\ Len(trace) = Size(data_)
        /\ \A i \in 1..Len(trace) : \A j \in 1..Len(trace) :
               i < j => TripleBefore(trace[i], trace[j])
        /\ {trace[i] : i \in 1..Len(trace)} =
               {<<k.x, k.y, StoredAt(data_, k)>> : k \in {c \in KeySet : Occupied(data_, c)}}
        /\ \A k \in KeySet :
               shadow[k] # Default <=> \E i \in 1..Len(trace) :
                   trace[i] = <<k.x, k.y, shadow[k]>>

\* C5 happens: a traversal over at least three occupied cells has finished
TraversalOrderedWitness ==
    /\ clean
    /\ it_ = EndIt
    /\ Len(trace) >= 3

\* C6: no operation that starts from a handle obtained by indexing the const
\* Matrix, copies of such handles included, changes the map.  Every handle of
\* SpecConst is such a handle, so the map stays as constructed.
ConstNeverMutates ==
    ((row.live => row.fromConst) /\ (\A h \in HandleId : cells[h].live => cells[h].fromConst))
        => data_ = EmptyMap

\* C7: creating a row handle, creating a cell handle, converting a cell
\* handle to a value, size() and the steps of a traversal leave the map and
\* size() unchanged, also for an unoccupied coordinate.
ReadsDoNotMutate ==
    [][(\/ \E x \in XIndex : MatrixIndex(x)
        \/ \E h \in HandleId, y \in YIndex : RowIndex(h, y)
        \/ \E h \in HandleId : Read(h)
        \/ SizeOp
        \/ RangeBegin
        \/ RangeStep)
       => (data_' = data_ /\ Size(data_') = Size(data_))]_vars

\* C7 happens: an unoccupied cell of a non-empty matrix was just read
ReadsDoNotMutateWitness ==
    /\ ret.kind = "value"
    /\ ret.val = Default
    /\ ~Occupied(data_, CellKey(ret.h))
    /\ Size(data_) >= 1

\* C8: for a freshly constructed Matrix size() is 0, begin() = end() and every
\* coordinate reads Default.
FreshMatrix ==
    fresh =>
        /\ Size(data_) = 0
        /\ Begin(data_) = End(data_)
        /\ \A k \in KeySet : ConvertT(data_, k.x, k.y).val = Default
        /\ ret.kind = "value" => ret.val = Default
        /\ ret.kind = "size" => ret.val = 0
        /\ it_.kind # "singular" => it_ = End(data_)

\* C8 happens: a cell of the fresh matrix was just read, after begin()
FreshMatrixWitness ==
    /\ fresh
    /\ ret.kind = "value"
    /\ it_ = EndIt

\* C9: a read through any handle, however long ago it was created and
\* whatever was written since through it or through another handle, returns
\* the value the map holds for its coordinate now (which is the value last
\* assigned there), or Default if the coordinate is unoccupied; two handles
\* bound to one coordinate read the same.
NoStaleHandle ==
    /\ \A h \in HandleId :
           cells[h].live =>
               /\ ConvertT(data_, cells[h].x, cells[h].y).val = StoredAt(data_, CellKey(h))
               /\ ConvertT(data_, cells[h].x, cells[h].y).val = shadow[CellKey(h)]
    /\ \A h \in HandleId, g \in HandleId :
           (cells[h].live /\ cells[g].live /\ CellKey(h) = CellKey(g)) =>
               ConvertT(data_, cells[h].x, cells[h].y).val
                   = ConvertT(data_, cells[g].x, cells[g].y).val
    /\ ret.kind = "value" => ret.val = shadow[CellKey(ret.h)]

\* C9 happens: two handles are bound to one coordinate, a value other than
\* Default was read through the first while another cell is occupied too
NoStaleHandleWitness ==
    /\ cells[1].live
    /\ cells[2].live
    /\ CellKey(1) = CellKey(2)
    /\ ret.kind = "value"
    /\ ret.h = 1
    /\ ret.val # Default
    /\ Size(data_) >= 2

\* C10: container[x][y] = v changes the cell (x, y) only: every other
\* coordinate reads as before and is occupied as before, and size() changes
\* by at most 1.
AssignFrame ==
    [][\A h \in HandleId, v \in Value :
          Assign(h, v) =>
              /\ \A k \in KeySet \ {CellKey(h)} :
                     /\ ConvertT(data_', k.x, k.y).val = ConvertT(data_, k.x, k.y).val
                     /\ Occupied(data_', k) <=> Occupied(data_, k)
                     /\ StoredAt(data_', k) = StoredAt(data_, k)
              /\ Size(data_') - Size(data_) \in {-1, 0, 1}]_vars

\* C10 happens: an assignment was just made while at least three cells are
\* occupied
AssignFrameWitness ==
    /\ ret.kind = "cell"
    /\ Size(data_) >= 3

====
